---------------------------- MODULE Spec2Model ----------------------------
(***************************************************************************)
(* A model of the FEM repository: the loader GlobalData (read_file,        *)
(* create_elements_from_nodes) and the solver FEMSolver (Jacobian mapping, *)
(* boundary assembly, local matrices, global scatter).                     *)
(*                                                                         *)
(* Real numbers are represented exactly by scaled integers; each section   *)
(* states its unit.  A read of memory the program never wrote, or an index *)
(* outside a container, is a nondeterministic choice among the outcomes    *)
(* listed at the place where it happens.                                   *)
(***************************************************************************)
EXTENDS Integers, Sequences, FiniteSets, TLC

VARIABLES
    \* ---- GlobalData ----
    scalars,      \* the 14 scalar members, by member name
    nodes_xy,     \* vector<Node> nodes_xy, each node <<x, y>>
    elements,     \* vector<Elem4> elements, each element a 4-tuple of nodes
    gd_err,       \* what the last read_file printed to cerr ("ok": nothing)
    gd_crashed,   \* the process died inside read_file
    gd_oob,       \* the last element creation read a record index >= size()
    gd_calls,     \* calls of read_file so far
    dataFile,     \* data.txt as the last read_file found it
    nodeFile,     \* XY_coordinates.txt as the last read_file found it
    \* ---- FEMSolver::calculate_H_integrand ----
    jin,          \* the arguments of the call
    jout,         \* the value returned, a fraction <<numerator, denominator>>
    jpc,          \* "call" before the call, "done" after it
    juninit,      \* the call read invJ entries that were never written
    \* ---- FEMSolver: boundary assembly, local matrices, global scatter ----
    grid,             \* grid.get_elements(): nodes, ID, Hbc and P of each
    local_H_matrices, \* vector<vector<double>> local_H_matrices
    H_global,         \* the caller's matrix handed to aggregate_Hbc_matrix
    P_global,         \* the caller's vector handed to aggregate_P_vector
    fe_pc,            \* "new" before the constructor ran, "ready" after
    fe_last,          \* the last operation called
    fe_args,          \* alpha (constructor), alpha and ambient temperature
                      \* (calculate_P_vector), nodes_num (last pass)
    fe_pwrites,       \* calls of calculate_P_vector since construction
    fe_oob,           \* the last pass indexed a container outside its range
    fe_crashed        \* the process died inside a pass

gdVars  == <<scalars, nodes_xy, elements, gd_err, gd_crashed, gd_oob,
             gd_calls, dataFile, nodeFile>>
jacVars == <<jin, jout, jpc, juninit>>
feVars  == <<grid, local_H_matrices, H_global, P_global, fe_pc, fe_last,
             fe_args, fe_pwrites, fe_oob, fe_crashed>>
vars    == <<gdVars, jacVars, feVars>>

Abs(x) == IF x < 0 THEN -x ELSE x

(***************************************************************************)
(*                              GlobalData                                 *)
(***************************************************************************)

\* The members read by the extraction chain, in the order of the chain.
FieldOrder ==
    << "simulation_time", "simulation_step_time", "conductivity", "alfa",
       "tot", "initial_temp", "density", "specific_heat",
       "nN", "nE", "nH", "nW", "H", "W" >>

Fields == { FieldOrder[k] : k \in 1..Len(FieldOrder) }

\* ---- bounds of the loader's inputs ----
MaxFileRecords == 5     \* lines of one XY_coordinates.txt
MaxCalls == 2           \* calls of read_file on one GlobalData
SizeBits == 16          \* modelled width of size_t

GoodScalars == [f \in Fields |-> 1]

\* The scalars of data.txt that also take a negative value.
AlsoNegative == {"simulation_time", "tot", "nW"}

\* data.txt lines that differ from the good one in one scalar.
OneBadScalar ==
    { [GoodScalars EXCEPT ![f] = 0] : f \in Fields }
    \cup { [GoodScalars EXCEPT ![f] = -1] : f \in AlsoNegative }

\* Numbers of leading fields of data.txt that parse before the chain fails.
PartialCounts == {4}

\* The place of each member in the extraction chain.
FieldIndex ==
    [f \in Fields |-> CHOOSE i \in 1..Len(FieldOrder) : FieldOrder[i] = f]

\* data.txt: missing, cut short or unparsable after `parsed` fields, or whole.
DataFiles ==
    { [exists |-> FALSE, vals |-> GoodScalars, parsed |-> 0, tail |-> "eof"] }
    \cup
    { [exists |-> TRUE, vals |-> GoodScalars, parsed |-> k, tail |-> t] :
          k \in PartialCounts, t \in {"eof", "bad"} }
    \cup
    { [exists |-> TRUE, vals |-> GoodScalars, parsed |-> Len(FieldOrder),
       tail |-> "eof"] }
    \cup
    { [exists |-> TRUE, vals |-> v, parsed |-> Len(FieldOrder),
       tail |-> "eof"] : v \in OneBadScalar }

\* Line i of a coordinate file holds the record <<i, i % 2>>.
FileRecord(i) == <<i, i % 2>>

\* The lines of a coordinate file that may fail to parse (0: none does).
BadLines == {0, 2}

\* XY_coordinates.txt: missing, or n lines of which line `bad` does not parse.
NodeFiles ==
    { [exists |-> FALSE, n |-> 0, bad |-> 0] }
    \cup
    { [exists |-> TRUE, n |-> n, bad |-> b] :
          n \in 0..MaxFileRecords, b \in BadLines }

\* dataFile >> simulation_time >> ... >> W (lines 27-28): the first `parsed`
\* members are assigned; the member whose extraction fails is set to 0 when
\* its text is not a number and left alone at end of file; later members are
\* not touched.
ExtractScalars(old, df) ==
    [f \in Fields |->
        LET k == FieldIndex[f]
        IN  IF k <= df.parsed THEN df.vals[f]
            ELSE IF k = df.parsed + 1 /\ df.tail = "bad" THEN 0
            ELSE old[f]]

\* The condition of lines 35-36 with the test of nW left out: a variant that
\* the statement on the checked scalars has to tell apart from the code.
PositiveCheckFails_NoNW(s) ==
    \/ s["simulation_step_time"] <= 0 \/ s["conductivity"] <= 0
    \/ s["alfa"] <= 0 \/ s["density"] <= 0 \/ s["specific_heat"] <= 0
    \/ s["nN"] <= 0 \/ s["nE"] <= 0 \/ s["nH"] <= 0
    \/ s["H"] <= 0 \/ s["W"] <= 0

\* The condition of lines 35-36.
PositiveCheckFails(s) ==
    \/ s["simulation_step_time"] <= 0 \/ s["conductivity"] <= 0
    \/ s["alfa"] <= 0 \/ s["density"] <= 0 \/ s["specific_heat"] <= 0
    \/ s["nN"] <= 0 \/ s["nE"] <= 0 \/ s["nH"] <= 0 \/ s["nW"] <= 0
    \/ s["H"] <= 0 \/ s["W"] <= 0

\* The condition of line 32.
NegativeTime(s) == s["simulation_time"] < 0

\* The records the while loop of lines 48-54 appends: every line before the
\* first one that does not parse.
LinesRead(nf) ==
    LET good == IF nf.bad = 0 \/ nf.bad > nf.n THEN nf.n ELSE nf.bad - 1
    IN  [i \in 1..good |-> FileRecord(i)]

NodeFileBad(nf) == nf.bad # 0 /\ nf.bad <= nf.n

\* nodes_xy.size() - 3 in size_t arithmetic (line 105).
LoopLimit(n) == (n - 3) % (2 ^ SizeBits)

\* The elements the loop of lines 105-108 pushes while every index it reads is
\* below n: i = 0, 4, 8, ... while i < LoopLimit(n) and i + 3 < n.
RECURSIVE GroupsFrom(_, _)
GroupsFrom(nodes, i) ==
    IF i < LoopLimit(Len(nodes)) /\ i + 3 < Len(nodes)
    THEN << << nodes[i + 1], nodes[i + 2], nodes[i + 3], nodes[i + 4] >> >>
         \o GroupsFrom(nodes, i + 4)
    ELSE << >>

\* The first loop index at which the loop of line 105 stops pushing in-range
\* groups.
RECURSIVE StopIndex(_, _)
StopIndex(n, i) ==
    IF i < LoopLimit(n) /\ i + 3 < n THEN StopIndex(n, i + 4) ELSE i

\* The loop condition still holds at the stop index: the body runs once more
\* and reads nodes_xy[i + 3] with i + 3 >= size().
ReadsPastEnd(n) == StopIndex(n, 0) < LoopLimit(n)

\* What a read past the end of nodes_xy may yield when it does not fault.
GarbageNode == <<-7, -7>>

\* The element built by the first iteration that reads past the end: the
\* records that exist, then garbage.
PastEndElement(nodes) ==
    LET i == StopIndex(Len(nodes), 0)
    IN  [k \in 1..4 |-> IF i + k <= Len(nodes) THEN nodes[i + k] ELSE GarbageNode]

\* What read_file prints to cerr for these files, "ok" when nothing is thrown.
\* s is the scalar state after the extraction chain.
ReadFileError(df, nf, s) ==
    IF ~df.exists THEN "data_not_found"                      \* line 24
    ELSE IF df.parsed < Len(FieldOrder) THEN "data_read"     \* line 29
    ELSE IF NegativeTime(s) THEN "negative_time"             \* line 33
    ELSE IF PositiveCheckFails(s) THEN "not_positive"        \* line 37
    ELSE IF ~nf.exists THEN "xy_not_found"                   \* line 44
    ELSE IF NodeFileBad(nf) THEN "bad_line"                  \* line 51
    ELSE "ok"

\* The errors thrown after the coordinate file was opened.
AfterNodeFileOpened == {"bad_line", "ok"}

\* The outcomes of create_elements_from_nodes (lines 104-109) as pairs
\* <<elements, crashed>>.  While every index is in range the groups are pushed.
\* When the loop condition still holds past the last whole group (size() < 3,
\* where size() - 3 wraps), the body reads beyond the vector: the process
\* faults at once, or builds one element from what lies there and faults on a
\* later iteration.
create_elements_from_nodes(elems, nodes) ==
    LET pushed == elems \o GroupsFrom(nodes, 0)
    IN  IF ReadsPastEnd(Len(nodes))
        THEN { <<pushed, TRUE>>, <<pushed \o <<PastEndElement(nodes)>>, TRUE>> }
        ELSE { <<pushed, FALSE>> }

InitData ==
    /\ scalars = [f \in Fields |-> 0]
    /\ nodes_xy = << >>
    /\ elements = << >>
    /\ gd_err = "none"
    /\ gd_crashed = FALSE
    /\ gd_oob = FALSE
    /\ gd_calls = 0
    /\ dataFile = [exists |-> FALSE, vals |-> GoodScalars, parsed |-> 0,
                   tail |-> "eof"]
    /\ nodeFile = [exists |-> FALSE, n |-> 0, bad |-> 0]

\* GlobalData::read_file (lines 20-61) on the files df and nf.
read_file(df, nf) ==
    LET s   == IF df.exists THEN ExtractScalars(scalars, df) ELSE scalars
        err == ReadFileError(df, nf, s)
        nds == IF err \in AfterNodeFileOpened
               THEN nodes_xy \o LinesRead(nf) ELSE nodes_xy
    IN  /\ ~gd_crashed
        /\ gd_calls < MaxCalls
        /\ gd_calls' = gd_calls + 1
        /\ dataFile' = df
        /\ nodeFile' = nf
        /\ scalars' = s
        /\ nodes_xy' = nds
        /\ IF err = "ok"
           THEN \E out \in create_elements_from_nodes(elements, nds) :
                    /\ elements' = out[1]
                    /\ gd_crashed' = out[2]
                    /\ gd_oob' = ReadsPastEnd(Len(nds))
                    /\ gd_err' = IF out[2] THEN gd_err ELSE "ok"
           ELSE /\ elements' = elements
                /\ gd_crashed' = FALSE
                /\ gd_oob' = FALSE
                /\ gd_err' = err

ReadFile == \E df \in DataFiles, nf \in NodeFiles : read_file(df, nf)

(***************************************************************************)
(*        FEMSolver: Jacobian mapping and the conductivity integrand        *)
(*                                                                         *)
(* Units: a coordinate c stands for c * 10^-CoordExp; xi and eta are given *)
(* as numerators over QDen.  Shape-function derivatives are kept times     *)
(* 4*QDen, so a Jacobian entry J stands for J * 10^-CoordExp / (4*QDen)    *)
(* and a determinant d for d * 10^(-2*CoordExp) / (16*QDen^2).             *)
(***************************************************************************)

CoordExp == 6       \* coordinates are multiples of 10^-6
QDen == 2           \* xi, eta are multiples of 1/2
EpsExp == 12        \* the threshold 1e-12 of compute_inverse_jacobian

\* a * 10^ea < b * 10^eb for naturals a, b, without forming the powers.
RECURSIVE LessScaled(_, _, _, _)
LessScaled(a, ea, b, eb) ==
    IF ea > 0 /\ eb > 0 THEN LessScaled(a, ea - 1, b, eb - 1)
    ELSE IF ea > 0 THEN LessScaled(a, ea - 1, (b + 9) \div 10, 0)
    ELSE IF eb > 0 THEN LessScaled(a \div 10, 0, b, eb - 1)
    ELSE a < b

\* dN_dxi[] of lines 35-40 and 79-84, times 4*QDen, at eta = pe / QDen.
dN_dxi(pe) == << -(QDen - pe), QDen - pe, QDen + pe, -(QDen + pe) >>

\* dN_deta[] of lines 42-47 and 86-91, times 4*QDen, at xi = px / QDen.
dN_deta(px) == << -(QDen - px), -(QDen + px), QDen + px, QDen - px >>

RECURSIVE SumTo(_, _)
SumTo(f, n) == IF n = 0 THEN 0 ELSE SumTo(f, n - 1) + f[n]

\* compute_jacobian (lines 34-58): <<J00, J01, J10, J11>>.
compute_jacobian(nodes, px, pe) ==
    LET dxi  == dN_dxi(pe)
        deta == dN_deta(px)
    IN  << SumTo([k \in 1..4 |-> dxi[k]  * nodes[k][1]], 4),
           SumTo([k \in 1..4 |-> deta[k] * nodes[k][1]], 4),
           SumTo([k \in 1..4 |-> dxi[k]  * nodes[k][2]], 4),
           SumTo([k \in 1..4 |-> deta[k] * nodes[k][2]], 4) >>

\* compute_jacobian_determinant (lines 60-62).
compute_jacobian_determinant(J) == J[1] * J[4] - J[2] * J[3]

\* The test abs(detJ) < 1e-12 of line 67 on a determinant in model units.
NearZeroDet(det) ==
    LessScaled(Abs(det), EpsExp, 16 * QDen * QDen, 2 * CoordExp)

\* What the four doubles of the local array invJ (line 97) may hold when
\* compute_inverse_jacobian returned without writing them, in units of
\* 10^CoordExp.
GarbageInvJ == {-1, 0, 1}

\* compute_inverse_jacobian (lines 64-76): the entries of invJ as numerators
\* <<invJ00, invJ01, invJ10, invJ11>> over the denominator den, in units of
\* 10^CoordExp.  Below the threshold the function returns at line 69 and invJ
\* keeps whatever the caller's stack held, here g.
compute_inverse_jacobian(J, g) ==
    LET det == compute_jacobian_determinant(J)
    IN  IF NearZeroDet(det)
        THEN [num |-> g, den |-> 1, written |-> FALSE]
        ELSE [num |-> << 4 * QDen * J[4], -(4 * QDen * J[2]),
                         -(4 * QDen * J[3]), 4 * QDen * J[1] >>,
              den |-> det, written |-> TRUE]

\* calculate_H_integrand (lines 78-109): the value returned, as the fraction
\* <<numerator, denominator>>; i and j are 0-based as in the source.
calculate_H_integrand(nodes, conductivity, i, j, px, pe, g) ==
    LET dxi  == dN_dxi(pe)
        deta == dN_deta(px)
        J    == compute_jacobian(nodes, px, pe)
        detJ == compute_jacobian_determinant(J)
        invJ == compute_inverse_jacobian(J, g)
        dN_dx == [k \in 1..4 |-> invJ.num[1] * dxi[k] + invJ.num[2] * deta[k]]
        dN_dy == [k \in 1..4 |-> invJ.num[3] * dxi[k] + invJ.num[4] * deta[k]]
    IN  << conductivity
             * (dN_dx[i + 1] * dN_dx[j + 1] + dN_dy[i + 1] * dN_dy[j + 1])
             * detJ,
           invJ.den * invJ.den * 256 * QDen * QDen * QDen * QDen >>

\* ---- inputs of the integrand ----
JacElements ==
    { << <<0, 0>>, <<1, 0>>, <<1, 1>>, <<0, 1>> >>,     \* square of side 1e-6
      << <<0, 0>>, <<3, 0>>, <<3, 3>>, <<0, 3>> >>,     \* square of side 3e-6
      << <<0, 0>>, <<4, 0>>, <<3, 3>>, <<0, 3>> >>,     \* trapezoid
      << <<0, 0>>, <<1, 0>>, <<2, 0>>, <<3, 0>> >> }    \* collinear nodes

JacPoints == {-1, 1}

JacConductivities == {1, 2}

JacInputs ==
    [nodes : JacElements, xi : JacPoints, eta : JacPoints,
     i : 0..3, j : 0..3, conductivity : JacConductivities]

InitJac ==
    /\ jin \in JacInputs
    /\ jout = <<0, 1>>
    /\ jpc = "call"
    /\ juninit = FALSE

\* One evaluation of the integrand by the quadrature sum (line 131).
EvalIntegrand ==
    /\ jpc = "call"
    /\ \E g \in [1..4 -> GarbageInvJ] :
          LET J == compute_jacobian(jin.nodes, jin.xi, jin.eta)
          IN  /\ jout' = calculate_H_integrand(jin.nodes, jin.conductivity,
                             jin.i, jin.j, jin.xi, jin.eta, g)
              /\ juninit' = ~compute_inverse_jacobian(J, g).written
    /\ jpc' = "done"
    /\ jin' = jin

\* The quadrature sum moves on to another point, pair or element.
NextPoint ==
    /\ jpc = "done"
    /\ jin' \in JacInputs
    /\ jout' = <<0, 1>>
    /\ jpc' = "call"
    /\ juninit' = FALSE

(***************************************************************************)
(*       FEMSolver: boundary assembly, local matrices, global scatter       *)
(*                                                                         *)
(* Units: a matrix or vector entry is a pair <<a, b>> standing for         *)
(* (a + b*sqrt(3)) / 72, which holds the 2-point Gauss abscissae           *)
(* -+1/sqrt(3) and every product and sum the code forms from them exactly. *)
(* Coordinates, alpha, the ambient temperature and the conductivity are    *)
(* integers.                                                               *)
(***************************************************************************)

Zero == <<0, 0>>
PAdd(p, q) == <<p[1] + q[1], p[2] + q[2]>>
PScale(c, p) == <<c * p[1], c * p[2]>>
PMul(p, q) == <<p[1] * q[1] + 3 * p[2] * q[2], p[1] * q[2] + p[2] * q[1]>>

ZeroVector(n) == [i \in 1..n |-> Zero]
ZeroMatrix(n) == [i \in 1..n |-> ZeroVector(n)]

\* sqrt on the perfect squares the inputs produce.
Sqrt(n) == CHOOSE r \in 0..n : r * r = n

\* Integration::get_points(2), times 3: -sqrt(3)/3 and +sqrt(3)/3.
get_points_2 == << <<0, -1>>, <<0, 1>> >>

\* Integration::get_weights(2).
get_weights_2 == << 1, 1 >>

\* N1 = 0.5 * (1 - xi) and N2 = 0.5 * (1 + xi) of lines 210-211 and 282-283,
\* times 6, at the abscissa xi3 / 3.
ShapeN1(xi3) == << 3 - xi3[1], -xi3[2] >>
ShapeN2(xi3) == << 3 + xi3[1], xi3[2] >>

\* sqrt(dx^2 + dy^2) between two nodes: 2 * detJ of line 216, L of line 277.
EdgeLength(node1, node2) ==
    Sqrt((node1.x - node2.x) * (node1.x - node2.x)
         + (node1.y - node2.y) * (node1.y - node2.y))

\* integrate_Hbc_on_edge (lines 202-224): the 2x2 block added to Hbc, which
\* the caller passes in as zeros.
RECURSIVE integrate_Hbc_on_edge(_, _, _, _, _)
integrate_Hbc_on_edge(node1, node2, alpha, Hbc, k) ==
    IF k = 2 THEN Hbc
    ELSE LET xi == get_points_2[k + 1]
             weight == get_weights_2[k + 1]
             N == << ShapeN1(xi), ShapeN2(xi) >>
             Hbc_value == alpha * weight * EdgeLength(node1, node2)
         IN  integrate_Hbc_on_edge(node1, node2, alpha,
                 [p \in 1..2 |-> [q \in 1..2 |->
                     PAdd(Hbc[p][q], PScale(Hbc_value, PMul(N[p], N[q])))]],
                 k + 1)

\* A variant of the edge test in which one flagged endpoint is enough; the
\* statement on boundary edges has to tell it apart from the code.
EdgeOnBoundary_Either(node1, node2) == node1.BC \/ node2.BC

\* The test node1.get_BC() && node2.get_BC() of lines 235 and 273.
EdgeOnBoundary(node1, node2) == node1.BC /\ node2.BC

\* The loop over the edges of one element in calculate_local_Hbc_matrix
\* (lines 231-246), from edge `edge` on, accumulating into Hbc_local.
RECURSIVE HbcOverEdges(_, _, _, _)
HbcOverEdges(nodes, alpha, Hbc_local, edge) ==
    IF edge = 4 THEN Hbc_local
    ELSE LET node1 == nodes[edge + 1]
             node2 == nodes[((edge + 1) % 4) + 1]
             local_indices == << edge, (edge + 1) % 4 >>
         IN  IF EdgeOnBoundary(node1, node2)
             THEN LET Hbc_edge == integrate_Hbc_on_edge(node1, node2, alpha,
                                      [p \in 1..2 |-> [q \in 1..2 |-> Zero]], 0)
                      Pos(r) == IF r = local_indices[1] + 1 THEN 1
                                ELSE IF r = local_indices[2] + 1 THEN 2 ELSE 0
                  IN  HbcOverEdges(nodes, alpha,
                          [r \in 1..4 |-> [c \in 1..4 |->
                              IF Pos(r) > 0 /\ Pos(c) > 0
                              THEN PAdd(Hbc_local[r][c], Hbc_edge[Pos(r)][Pos(c)])
                              ELSE Hbc_local[r][c]]],
                          edge + 1)
             ELSE HbcOverEdges(nodes, alpha, Hbc_local, edge + 1)

\* calculate_local_Hbc_matrix (lines 226-259): every element's Hbc slot is set
\* to the matrix computed from zeros.
calculate_local_Hbc_matrix(g, alpha) ==
    [e \in 1..Len(g) |->
        [g[e] EXCEPT !.Hbc = HbcOverEdges(g[e].nodes, alpha, ZeroMatrix(4), 0)]]

\* The two Gauss points of one boundary edge in calculate_P_vector (lines
\* 279-289), accumulating into P_local.
RECURSIVE POnEdge(_, _, _, _, _, _)
POnEdge(node1, node2, alphaT, P_local, edge, k) ==
    IF k = 2 THEN P_local
    ELSE LET xi == get_points_2[k + 1]
             weight == get_weights_2[k + 1]
             q == 6 * alphaT * weight * EdgeLength(node1, node2)
             a == edge + 1
             b == ((edge + 1) % 4) + 1
             P1 == [P_local EXCEPT ![a] = PAdd(@, PScale(q, ShapeN1(xi)))]
             P2 == [P1 EXCEPT ![b] = PAdd(@, PScale(q, ShapeN2(xi)))]
         IN  POnEdge(node1, node2, alphaT, P2, edge, k + 1)

\* The loop over the edges of one element in calculate_P_vector (lines
\* 269-291).
RECURSIVE POverEdges(_, _, _, _)
POverEdges(nodes, alphaT, P_local, edge) ==
    IF edge = 4 THEN P_local
    ELSE LET node1 == nodes[edge + 1]
             node2 == nodes[((edge + 1) % 4) + 1]
         IN  IF EdgeOnBoundary(node1, node2)
             THEN POverEdges(nodes, alphaT,
                      POnEdge(node1, node2, alphaT, P_local, edge, 0), edge + 1)
             ELSE POverEdges(nodes, alphaT, P_local, edge + 1)

\* calculate_P_vector (lines 261-300): every element's P slot is set.
calculate_P_vector(g, alpha, ambient_temperature) ==
    [e \in 1..Len(g) |->
        [g[e] EXCEPT !.P = POverEdges(g[e].nodes, alpha * ambient_temperature,
                                      ZeroVector(4), 0)]]

\* The local conductivity matrix of a square element for unit conductivity,
\* times 6.
SquareStiffness ==
    << << 4, -1, -2, -1 >>, << -1, 4, -1, -2 >>,
       << -2, -1, 4, -1 >>, << -1, -2, -1, 4 >> >>

\* Integration::gauss_integration_2D of the integrand over [-1,1]^2 with the
\* 4-point rule (lines 129-132), for a square element: the rule is exact for
\* the integrand, a polynomial of degree 2 in xi and in eta.
gauss_integration_2D(conductivity, i, j) ==
    << 12 * conductivity * SquareStiffness[i + 1][j + 1], 0 >>

\* calculate_Hbc_matrix (lines 111-154): local_H_matrices is cleared and gets
\* one vector of 16 entries per element, H[i * 4 + j] the integral plus
\* Hbc_local[i][j].
calculate_Hbc_matrix(g, conductivity) ==
    [e \in 1..Len(g) |->
        [idx \in 1..16 |->
            LET i == (idx - 1) \div 4
                j == (idx - 1) % 4
            IN  PAdd(gauss_integration_2D(conductivity, i, j),
                     g[e].Hbc[i + 1][j + 1])]]

\* The guards of lines 167 and 311, for one index.
PassesGuard(id, nodes_num) == id < nodes_num

\* The index passes the guard and lies outside the container all the same.
WildIndex(id, nodes_num) == PassesGuard(id, nodes_num) /\ id < 0

\* The loops of lines 160-174 from element e, entry idx = i * 4 + j on.  An
\* entry whose two indices pass the guard is added to H[ID[i]][ID[j]]; when one
\* of them is negative the addition lands outside the container and H keeps
\* its value.  A read of H_local beyond its size yields `garbage`.
RECURSIVE ScatterH(_, _, _, _, _, _, _)
ScatterH(H, g, locals, nodes_num, garbage, e, idx) ==
    IF e > Len(g) THEN H
    ELSE IF idx = 16 THEN ScatterH(H, g, locals, nodes_num, garbage, e + 1, 0)
    ELSE LET ID == g[e].ID
             H_local == locals[e]
             i == idx \div 4
             j == idx % 4
             r == ID[i + 1]
             c == ID[j + 1]
             v == IF idx + 1 <= Len(H_local) THEN H_local[idx + 1] ELSE garbage
         IN  IF PassesGuard(r, nodes_num) /\ PassesGuard(c, nodes_num)
                /\ ~WildIndex(r, nodes_num) /\ ~WildIndex(c, nodes_num)
             THEN ScatterH([H EXCEPT ![r + 1][c + 1] = PAdd(@, v)],
                           g, locals, nodes_num, garbage, e, idx + 1)
             ELSE ScatterH(H, g, locals, nodes_num, garbage, e, idx + 1)

\* The pass of aggregate_Hbc_matrix writes H_global outside [0, nodes_num).
HWritesOutside(g, nodes_num) ==
    \E e \in 1..Len(g) : \E i, j \in 1..4 :
        /\ PassesGuard(g[e].ID[i], nodes_num)
        /\ PassesGuard(g[e].ID[j], nodes_num)
        /\ (WildIndex(g[e].ID[i], nodes_num) \/ WildIndex(g[e].ID[j], nodes_num))

\* The pass of aggregate_Hbc_matrix reads H_local[i * 4 + j] beyond its size.
HReadsBeyondLocal(g, locals, nodes_num) ==
    \E e \in 1..Len(g) : \E i, j \in 0..3 :
        /\ PassesGuard(g[e].ID[i + 1], nodes_num)
        /\ PassesGuard(g[e].ID[j + 1], nodes_num)
        /\ i * 4 + j >= Len(locals[e])

\* The loops of lines 306-317 from element e, entry i on.
RECURSIVE ScatterP(_, _, _, _, _)
ScatterP(P, g, nodes_num, e, i) ==
    IF e > Len(g) THEN P
    ELSE IF i = 4 THEN ScatterP(P, g, nodes_num, e + 1, 0)
    ELSE LET ID == g[e].ID
             P_local == g[e].P
             r == ID[i + 1]
         IN  IF PassesGuard(r, nodes_num) /\ ~WildIndex(r, nodes_num)
             THEN ScatterP([P EXCEPT ![r + 1] = PAdd(@, P_local[i + 1])],
                           g, nodes_num, e, i + 1)
             ELSE ScatterP(P, g, nodes_num, e, i + 1)

\* The pass of aggregate_P_vector writes P_global outside [0, nodes_num).
PWritesOutside(g, nodes_num) ==
    \E e \in 1..Len(g) : \E i \in 1..4 : WildIndex(g[e].ID[i], nodes_num)

\* What a double read beyond the end of a local matrix may hold.
GarbageValues == { Zero, <<5, 0>> }

\* ---- inputs of the solver ----
MaxPWrites == 2     \* calls of calculate_P_vector on one solver

Node(x, y, bc) == [x |-> x, y |-> y, BC |-> bc]

\* A square element with lower left corner (x0, y0), side s, nodes counter-
\* clockwise, the boundary flags and the ID mapping as given; Hbc and P as the
\* Element constructor leaves them, zero.
Square(x0, y0, s, bc, ID) ==
    [nodes |-> << Node(x0, y0, bc[1]), Node(x0 + s, y0, bc[2]),
                  Node(x0 + s, y0 + s, bc[3]), Node(x0, y0 + s, bc[4]) >>,
     ID |-> ID, Hbc |-> ZeroMatrix(4), P |-> ZeroVector(4)]

NoFlags == << FALSE, FALSE, FALSE, FALSE >>
AllFlags == << TRUE, TRUE, TRUE, TRUE >>
BottomFlags == << TRUE, TRUE, FALSE, FALSE >>

SolverGrids ==
    { << >>,
      << Square(0, 0, 1, NoFlags, <<0, 1, 2, 3>>) >>,
      << Square(0, 0, 1, AllFlags, <<-1, 0, 1, 2>>) >>,
      << Square(0, 0, 2, BottomFlags, <<0, 0, 1, 2>>) >>,
      << Square(0, 0, 1, << TRUE, TRUE, FALSE, TRUE >>, <<0, 1, 3, 2>>),
         Square(1, 0, 1, << TRUE, TRUE, TRUE, FALSE >>, <<1, 4, 5, 3>>) >>,
      << Square(0, 0, 1, << TRUE, TRUE, FALSE, TRUE >>, <<0, 1, 3, 2>>),
         Square(1, 0, 1, << TRUE, TRUE, TRUE, FALSE >>, <<1, -1, 2, 3>>) >>,
      << Square(0, 0, 2, BottomFlags, <<0, 1, 2, 3>>),
         Square(0, 2, 2, NoFlags, <<3, 2, 1, 0>>),
         Square(2, 0, 2, AllFlags, <<1, 3, 0, 2>>) >> }

\* The arguments the operations are called with.
Alphas == {1, 2}
AmbientTemperatures == {3}
Conductivities == {1}
NodeCounts == {0, 3, 4}

\* The containers the caller hands to the first passes, used before.
UsedMatrix == << << <<9, 0>> >> >>
UsedVector == << <<9, 0>>, <<9, 0>> >>

InitSolver ==
    /\ grid \in SolverGrids
    /\ local_H_matrices = << >>
    /\ H_global = UsedMatrix
    /\ P_global = UsedVector
    /\ fe_pc = "new"
    /\ fe_last = "none"
    /\ fe_args = [alpha |-> 0, p_alpha |-> 0, ambient |-> 0, conductivity |-> 0,
                  nodes_num |-> 0]
    /\ fe_pwrites = 0
    /\ fe_oob = {}
    /\ fe_crashed = FALSE

\* FEMSolver::FEMSolver (lines 20-23).
Construct(alpha) ==
    /\ fe_pc = "new"
    /\ local_H_matrices' = [e \in 1..Len(grid) |-> ZeroVector(4)]
    /\ grid' = calculate_local_Hbc_matrix(grid, alpha)
    /\ fe_pc' = "ready"
    /\ fe_last' = "FEMSolver"
    /\ fe_args' = [fe_args EXCEPT !.alpha = alpha]
    /\ UNCHANGED <<H_global, P_global, fe_pwrites, fe_oob, fe_crashed>>

Callable == fe_pc = "ready" /\ ~fe_crashed

\* FEMSolver::calculate_P_vector (lines 261-300).
CalculatePVector(alpha, ambient_temperature) ==
    /\ Callable
    /\ fe_pwrites < MaxPWrites
    /\ grid' = calculate_P_vector(grid, alpha, ambient_temperature)
    /\ fe_pwrites' = fe_pwrites + 1
    /\ fe_last' = "calculate_P_vector"
    /\ fe_args' = [fe_args EXCEPT !.p_alpha = alpha,
                                  !.ambient = ambient_temperature]
    /\ UNCHANGED <<local_H_matrices, H_global, P_global, fe_pc, fe_oob,
                   fe_crashed>>

\* FEMSolver::calculate_Hbc_matrix (lines 111-154).
CalculateHbcMatrix(conductivity) ==
    /\ Callable
    /\ local_H_matrices' = calculate_Hbc_matrix(grid, conductivity)
    /\ fe_last' = "calculate_Hbc_matrix"
    /\ fe_args' = [fe_args EXCEPT !.conductivity = conductivity]
    /\ UNCHANGED <<grid, H_global, P_global, fe_pc, fe_pwrites, fe_oob,
                   fe_crashed>>

\* FEMSolver::aggregate_Hbc_matrix (lines 156-200).  When the pass reads a
\* local matrix beyond its size or writes H_global at a negative index, the
\* process either faults (crash) or goes on with the garbage read and the
\* write lost outside the container.
AggregateHbcMatrix(nodes_num, garbage, crash) ==
    LET outside == HWritesOutside(grid, nodes_num)
        beyond  == HReadsBeyondLocal(grid, local_H_matrices, nodes_num)
    IN  /\ Callable
        /\ H_global' = ScatterH(ZeroMatrix(nodes_num), grid, local_H_matrices,
                                nodes_num, garbage, 1, 0)
        /\ fe_oob' = (IF outside THEN {"global"} ELSE {})
                     \cup (IF beyond THEN {"local"} ELSE {})
        /\ fe_crashed' = ((outside \/ beyond) /\ crash)
        /\ fe_last' = "aggregate_Hbc_matrix"
        /\ fe_args' = [fe_args EXCEPT !.nodes_num = nodes_num]
        /\ UNCHANGED <<grid, local_H_matrices, P_global, fe_pc, fe_pwrites>>

\* FEMSolver::aggregate_P_vector (lines 302-337).
AggregatePVector(nodes_num, crash) ==
    LET outside == PWritesOutside(grid, nodes_num)
    IN  /\ Callable
        /\ P_global' = ScatterP(ZeroVector(nodes_num), grid, nodes_num, 1, 0)
        /\ fe_oob' = IF outside THEN {"global"} ELSE {}
        /\ fe_crashed' = (outside /\ crash)
        /\ fe_last' = "aggregate_P_vector"
        /\ fe_args' = [fe_args EXCEPT !.nodes_num = nodes_num]
        /\ UNCHANGED <<grid, local_H_matrices, H_global, fe_pc, fe_pwrites>>

\* ---- inputs of the boundary assembly alone ----

\* An element with the given corners, boundary flags and ID mapping.
Quad(xy, bc, ID) ==
    [nodes |-> [k \in 1..4 |-> Node(xy[k][1], xy[k][2], bc[k])],
     ID |-> ID, Hbc |-> ZeroMatrix(4), P |-> ZeroVector(4)]

\* Corner coordinates whose edges have whole lengths: a unit square, a 2 x 1
\* rectangle, a trapezoid with edges 6, 5, 3, 4, and a quadrilateral whose
\* nodes 1 and 2 coincide (edges 3, 0, 5, 4).
BoundaryShapes ==
    { << <<0, 0>>, <<1, 0>>, <<1, 1>>, <<0, 1>> >>,
      << <<0, 0>>, <<2, 0>>, <<2, 1>>, <<0, 1>> >>,
      << <<0, 0>>, <<6, 0>>, <<3, 4>>, <<0, 4>> >>,
      << <<0, 0>>, <<3, 0>>, <<3, 0>>, <<0, 4>> >> }

BoundaryTemperatures == {1, 3}

InitBoundary ==
    /\ \E xy \in BoundaryShapes, bc \in [1..4 -> BOOLEAN] :
          grid = << Quad(xy, bc, <<0, 1, 2, 3>>) >>
    /\ local_H_matrices = << >>
    /\ H_global = << >>
    /\ P_global = << >>
    /\ fe_pc = "new"
    /\ fe_last = "none"
    /\ fe_args = [alpha |-> 0, p_alpha |-> 0, ambient |-> 0, conductivity |-> 0,
                  nodes_num |-> 0]
    /\ fe_pwrites = 0
    /\ fe_oob = {}
    /\ fe_crashed = FALSE

\* The outcomes open to a pass with nodes_num = n in the current state: a
\* garbage value when it reads beyond a local matrix, a fault when it reads
\* or writes outside a container.
HGarbageChoices(n) ==
    IF HReadsBeyondLocal(grid, local_H_matrices, n) THEN GarbageValues
    ELSE {Zero}
HCrashChoices(n) ==
    IF HReadsBeyondLocal(grid, local_H_matrices, n) \/ HWritesOutside(grid, n)
    THEN BOOLEAN ELSE {FALSE}
PCrashChoices(n) == IF PWritesOutside(grid, n) THEN BOOLEAN ELSE {FALSE}

IdleSolver ==
    /\ grid = << >>
    /\ local_H_matrices = << >>
    /\ H_global = << >>
    /\ P_global = << >>
    /\ fe_pc = "idle"
    /\ fe_last = "none"
    /\ fe_args = [alpha |-> 0, p_alpha |-> 0, ambient |-> 0, conductivity |-> 0,
                  nodes_num |-> 0]
    /\ fe_pwrites = 0
    /\ fe_oob = {}
    /\ fe_crashed = FALSE

\* The state of a part of the program that a specification leaves alone.
IdleData == InitData
IdleJac ==
    /\ jin = CHOOSE x \in JacInputs : TRUE
    /\ jout = <<0, 1>>
    /\ jpc = "idle"
    /\ juninit = FALSE

InitSpecData == InitData /\ IdleJac /\ IdleSolver
NextData == ReadFile /\ UNCHANGED <<jacVars, feVars>>
SpecData == InitSpecData /\ [][NextData]_vars

InitSpecJac == InitJac /\ IdleData /\ IdleSolver
NextJac ==
    \/ EvalIntegrand /\ UNCHANGED <<gdVars, feVars>>
    \/ NextPoint /\ UNCHANGED <<gdVars, feVars>>
SpecJac == InitSpecJac /\ [][NextJac]_vars

InitSpecSolver == InitSolver /\ IdleData /\ IdleJac
NextSolver ==
    \/ \E a \in Alphas : Construct(a) /\ UNCHANGED <<gdVars, jacVars>>
    \/ \E t \in AmbientTemperatures :
          CalculatePVector(fe_args.alpha, t) /\ UNCHANGED <<gdVars, jacVars>>
    \/ \E k \in Conductivities :
          CalculateHbcMatrix(k) /\ UNCHANGED <<gdVars, jacVars>>
    \/ Callable /\ \E n \in NodeCounts :
          \E g \in HGarbageChoices(n), crash \in HCrashChoices(n) :
              AggregateHbcMatrix(n, g, crash) /\ UNCHANGED <<gdVars, jacVars>>
    \/ Callable /\ \E n \in NodeCounts : \E crash \in PCrashChoices(n) :
          AggregatePVector(n, crash) /\ UNCHANGED <<gdVars, jacVars>>
SpecSolver == InitSpecSolver /\ [][NextSolver]_vars

InitSpecBoundary == InitBoundary /\ IdleData /\ IdleJac
NextBoundary ==
    \/ \E a \in Alphas : Construct(a) /\ UNCHANGED <<gdVars, jacVars>>
    \/ \E a \in Alphas, t \in BoundaryTemperatures :
          CalculatePVector(a, t) /\ UNCHANGED <<gdVars, jacVars>>
SpecBoundary == InitSpecBoundary /\ [][NextBoundary]_vars

(***************************************************************************)
(*                     Claims about GlobalData                             *)
(***************************************************************************)

\* The last call of read_file got past the checks to create_elements_from_nodes.
ReachedCreation == gd_calls > 0 /\ (gd_err = "ok" \/ gd_crashed)

\* Element k (from 1) made of records 4(k-1)+1 .. 4(k-1)+4, for every whole
\* group of four.
FloorGroups(nodes) ==
    [k \in 1..(Len(nodes) \div 4) |->
        << nodes[4 * (k - 1) + 1], nodes[4 * (k - 1) + 2],
           nodes[4 * (k - 1) + 3], nodes[4 * (k - 1) + 4] >>]

\* C3: for every number n >= 0 of loaded records, element creation appends
\* exactly floor(n/4) elements, element k built from records 4k..4k+3, and
\* never reads a record index >= n.
C3_FloorGroupsNoReadPastEnd ==
    [][ (gd_calls' # gd_calls /\ (gd_err' = "ok" \/ gd_crashed'))
        => /\ ~gd_oob'
           /\ ~gd_crashed'
           /\ elements' = elements \o FloorGroups(nodes_xy') ]_vars

\* The configuration errors of read_file.
ConfigErrors == {"data_read", "negative_time", "not_positive", "bad_line"}

\* C4: a call of read_file that ends in a configuration error leaves the
\* scalars, the node list and the element list as they were before the call.
C4_ErrorLeavesStateUntouched ==
    [][ (gd_calls' # gd_calls /\ ~gd_crashed' /\ gd_err' \in ConfigErrors)
        => /\ scalars' = scalars
           /\ nodes_xy' = nodes_xy
           /\ elements' = elements ]_vars

\* The last call read a data.txt whose fourteen fields all parsed.
WholeDataFile ==
    gd_calls > 0 /\ dataFile.exists /\ dataFile.parsed = Len(FieldOrder)

\* What read_file reports when the scalars in `mustBePositive` are required
\* to be strictly positive and the time horizon non-negative.
ReportsExactly(mustBePositive) ==
    LET v == dataFile.vals
        someBad == \E f \in mustBePositive : v[f] <= 0
    IN  WholeDataFile =>
          /\ v["simulation_time"] < 0 => gd_err = "negative_time"
          /\ (v["simulation_time"] >= 0 /\ someBad) => gd_err = "not_positive"
          /\ ReachedCreation => (v["simulation_time"] >= 0 /\ ~someBad)

\* C5 as stated: every scalar other than the time horizon, the ambient and
\* the initial temperature included, must be strictly positive or read_file
\* reports a configuration error.
C5_AllScalarsChecked == ReportsExactly(Fields \ {"simulation_time"})

\* C5 amended: read_file reports a configuration error whenever the time
\* horizon is negative or one of time step, conductivity, alpha, density,
\* specific heat, nN, nE, nH, nW, height, width is not strictly positive; the
\* ambient temperature (tot) and the initial temperature are not checked; it
\* reaches element creation only when all the checked scalars pass.
C5_CheckedScalars ==
    ReportsExactly(Fields \ {"simulation_time", "tot", "initial_temp"})

\* A call that rejected a data.txt whose only bad scalar is nW = -1.
C5_Witness ==
    WholeDataFile /\ gd_err = "not_positive" /\ dataFile.vals["nW"] = -1

(***************************************************************************)
(*                     Claims about the integrand                          *)
(***************************************************************************)

\* The integrand was evaluated at a point whose determinant is below 1e-12.
DegeneratePoint ==
    /\ jpc = "done"
    /\ NearZeroDet(compute_jacobian_determinant(
                       compute_jacobian(jin.nodes, jin.xi, jin.eta)))

\* C2: at a quadrature point with |detJ| < 1e-12 the integrand contributes
\* nothing: the value returned does not depend on the inverse Jacobian that
\* was never computed.
C2_DegeneratePointSkipped == DegeneratePoint => jout[1] = 0

(***************************************************************************)
(*                  Claims about the boundary assembly                     *)
(***************************************************************************)

\* Both endpoints of edge k (0-based: nodes k and (k+1) mod 4) are flagged.
EdgeFlagged(nodes, k) == nodes[k + 1].BC /\ nodes[((k + 1) % 4) + 1].BC

\* Local index i (0-based) is an endpoint of edge k.
OnEdge(i, k) == i = k \/ i = (k + 1) % 4

EdgeLen(nodes, k) == EdgeLength(nodes[k + 1], nodes[((k + 1) % 4) + 1])

\* The closed form of the boundary matrix: entry (i, j) is the sum, over the
\* flagged edges that have both i and j as endpoints, of alpha * L / 3 on the
\* diagonal and alpha * L / 6 off it.
ExpectedHbc(nodes, alpha) ==
    [r \in 1..4 |-> [c \in 1..4 |->
        << SumTo([k \in 1..4 |->
                    IF EdgeFlagged(nodes, k - 1) /\ OnEdge(r - 1, k - 1)
                       /\ OnEdge(c - 1, k - 1)
                    THEN alpha * EdgeLen(nodes, k - 1)
                         * (IF r = c THEN 24 ELSE 12)
                    ELSE 0], 4),
           0 >>]]

\* The closed form of the load vector: entry i is the sum, over the flagged
\* edges with endpoint i, of alpha * T * L / 2.
ExpectedP(nodes, alpha, ambient) ==
    [r \in 1..4 |->
        << SumTo([k \in 1..4 |->
                    IF EdgeFlagged(nodes, k - 1) /\ OnEdge(r - 1, k - 1)
                    THEN 36 * alpha * ambient * EdgeLen(nodes, k - 1)
                    ELSE 0], 4),
           0 >>]

\* C9: an edge (k, (k+1) mod 4) contributes to the element's Hbc matrix and P
\* vector if and only if both its endpoints carry the boundary flag, and then
\* only at local indices k and (k+1) mod 4; without two consecutive flagged
\* nodes both are exactly zero.
C9_OnlyFlaggedEdgesContribute ==
    fe_pc = "ready" =>
        \A e \in 1..Len(grid) :
            /\ grid[e].Hbc = ExpectedHbc(grid[e].nodes, fe_args.alpha)
            /\ fe_pwrites > 0 =>
                 grid[e].P = ExpectedP(grid[e].nodes, fe_args.p_alpha,
                                       fe_args.ambient)
            /\ (\A k \in 0..3 : ~EdgeFlagged(grid[e].nodes, k)) =>
                 /\ grid[e].Hbc = ZeroMatrix(4)
                 /\ grid[e].P = ZeroVector(4)

\* An element with exactly the edge (0, 1) flagged, after both assemblies: the
\* edge's entries are set and the entries of nodes 2 and 3 are not.
C9_Witness ==
    /\ fe_pc = "ready"
    /\ fe_pwrites > 0
    /\ Len(grid) = 1
    /\ EdgeFlagged(grid[1].nodes, 0)
    /\ \A k \in 1..3 : ~EdgeFlagged(grid[1].nodes, k)
    /\ grid[1].Hbc[1][2] # Zero
    /\ grid[1].Hbc[3][3] = Zero
    /\ grid[1].P[2] # Zero
    /\ grid[1].P[3] = Zero

(***************************************************************************)
(*            Claims about the local matrices and the scatter              *)
(***************************************************************************)

HPassDone == fe_last = "aggregate_Hbc_matrix"
PPassDone == fe_last = "aggregate_P_vector"

InRange(id, nodes_num) == 0 <= id /\ id < nodes_num

\* The sum of the entries H_local[i * 4 + j] of all elements with ID[i] = r
\* and ID[j] = c, from element e, entry idx on.
RECURSIVE EntrySumH(_, _, _, _, _, _)
EntrySumH(g, locals, r, c, e, idx) ==
    IF e > Len(g) THEN Zero
    ELSE IF idx = 16 THEN EntrySumH(g, locals, r, c, e + 1, 0)
    ELSE LET hit == /\ g[e].ID[(idx \div 4) + 1] = r
                    /\ g[e].ID[(idx % 4) + 1] = c
                    /\ idx + 1 <= Len(locals[e])
         IN  PAdd(IF hit THEN locals[e][idx + 1] ELSE Zero,
                  EntrySumH(g, locals, r, c, e, idx + 1))

\* The sum of the entries P_local[i] of all elements with ID[i] = r.
RECURSIVE EntrySumP(_, _, _, _)
EntrySumP(g, r, e, i) ==
    IF e > Len(g) THEN Zero
    ELSE IF i = 4 THEN EntrySumP(g, r, e + 1, 0)
    ELSE PAdd(IF g[e].ID[i + 1] = r THEN g[e].P[i + 1] ELSE Zero,
              EntrySumP(g, r, e, i + 1))

\* The global matrix and vector made of exactly the in-range entries.
InRangeSumH(g, locals, n) ==
    [r \in 1..n |-> [c \in 1..n |-> EntrySumH(g, locals, r - 1, c - 1, 1, 0)]]
InRangeSumP(g, n) == [r \in 1..n |-> EntrySumP(g, r - 1, 1, 0)]

\* Every local matrix has its 16 entries.
LocalsComplete == \A e \in 1..Len(grid) : Len(local_H_matrices[e]) = 16

\* C1: a pass skips exactly the entries with a global index outside
\* [0, nodes_num), never indexes the global container outside that range, and
\* leaves the sum of all the in-range local entries.
C1_SkipsExactlyOutOfRange ==
    /\ (HPassDone /\ LocalsComplete) =>
         /\ ~fe_crashed
         /\ "global" \notin fe_oob
         /\ H_global = InRangeSumH(grid, local_H_matrices, fe_args.nodes_num)
    /\ PPassDone =>
         /\ ~fe_crashed
         /\ "global" \notin fe_oob
         /\ P_global = InRangeSumP(grid, fe_args.nodes_num)

\* The last pass of aggregate_P_vector read a P slot: some index of some
\* element passed the guard of line 311.
PPassReadSlot ==
    /\ PPassDone
    /\ \E e \in 1..Len(grid) : \E i \in 1..4 :
          PassesGuard(grid[e].ID[i], fe_args.nodes_num)

\* C6: the P slots are written by calculate_P_vector exactly once, and before
\* aggregate_P_vector reads them: a read never observes a slot that was not
\* written.
C6_SlotsWrittenOnceBeforeRead ==
    /\ fe_pwrites <= 1
    /\ PPassReadSlot => fe_pwrites = 1

\* C7: a pass starts from an all-zero container of size nodes_num whatever
\* the container held, so running the same pass again gives the same result.
C7_PassIsIdempotent ==
    [][ /\ (HPassDone /\ HPassDone' /\ fe_args'.nodes_num = fe_args.nodes_num)
           => (H_global' = H_global /\ ~fe_crashed')
        /\ (PPassDone /\ PPassDone' /\ fe_args'.nodes_num = fe_args.nodes_num)
           => (P_global' = P_global /\ ~fe_crashed') ]_vars

\* The sequence s in the order perm.
Permuted(s, perm) == [k \in 1..Len(s) |-> s[perm[k]]]

OrdersOf(n) ==
    { f \in [1..n -> 1..n] : \A a, b \in 1..n : f[a] = f[b] => a = b }

\* C8: the pass over the elements in any order, each with its own local
\* matrix, local vector and ID mapping, yields the same matrix and vector.
C8_OrderIndependent ==
    /\ HPassDone =>
         /\ ~fe_crashed
         /\ \A perm \in OrdersOf(Len(grid)) :
              \A garbage \in HGarbageChoices(fe_args.nodes_num) :
                H_global = ScatterH(ZeroMatrix(fe_args.nodes_num),
                                    Permuted(grid, perm),
                                    Permuted(local_H_matrices, perm),
                                    fe_args.nodes_num, garbage, 1, 0)
    /\ PPassDone =>
         /\ ~fe_crashed
         /\ \A perm \in OrdersOf(Len(grid)) :
              P_global = ScatterP(ZeroVector(fe_args.nodes_num),
                                  Permuted(grid, perm),
                                  fe_args.nodes_num, 1, 0)

\* C10: whenever aggregate_Hbc_matrix runs, local_H_matrices holds one matrix
\* of 16 entries per element, so every read H_local[i * 4 + j] of the pass is
\* within bounds.
C10_LocalReadsInBounds ==
    HPassDone =>
        /\ Len(local_H_matrices) = Len(grid)
        /\ "local" \notin fe_oob

=============================================================================
